---- MODULE Spec2Model ----
(***************************************************************************)
(* The ingestion worker of src/src/ingest_pipeline/main.py as a state      *)
(* machine: lambda_handler drains a batch of notification records, each    *)
(* through process_s3_record, against one shared object store, and then    *)
(* posts the storage sync.  Every call on a collaborator (object store,    *)
(* rasterizer, HTTP) is one step, and may fail.                            *)
(*                                                                         *)
(* A Python str is a sequence of one-character strings, so that formatting,*)
(* parsing, matching and unescaping are computed as the code computes them.*)
(***************************************************************************)
EXTENDS Integers, Sequences, FiniteSets, TLC

\* ------------------------------------------------------------------ bounds

\* Longest batch of notification records handed to one lambda_handler run.
MaxRecords == 2

\* Largest page count of a stored PDF.
MaxPages == 2

\* ------------------------------------------------------- program constants

\* f"TASK_{seq_num:07d}.json"
TaskWidth == 7

\* f"{base_name}_{page_num:04d}"
PageWidth == 4

UPLOAD == <<"u", "p", "l", "o", "a", "d", "/">>

RAW == <<"r", "a", "w", "/">>

INGEST == <<"i", "n", "g", "e", "s", "t", "/">>

TASK_ == <<"T", "A", "S", "K", "_">>

DOTJSON == <<".", "j", "s", "o", "n">>

DOTPNG == <<".", "p", "n", "g">>

DOTPDF == <<".", "p", "d", "f">>

S3SCHEME == <<"s", "3", ":", "/", "/">>

\* ------------------------------------------------------------ str helpers

Max(S) == CHOOSE x \in S : \A y \in S : y <= x

DIGITS == <<"0", "1", "2", "3", "4", "5", "6", "7", "8", "9">>

UPPERCASE == <<"A", "B", "C", "D", "E", "F", "G", "H", "I", "J", "K", "L", "M",
               "N", "O", "P", "Q", "R", "S", "T", "U", "V", "W", "X", "Y", "Z">>

LOWERCASE == <<"a", "b", "c", "d", "e", "f", "g", "h", "i", "j", "k", "l", "m",
               "n", "o", "p", "q", "r", "s", "t", "u", "v", "w", "x", "y", "z">>

\* The printable ASCII characters, code 32 first (code 96, which a TLA+ string
\* cannot hold, stands as "?").
ASCII == <<" ", "!", "\"", "#", "$", "%", "&", "'", "(", ")", "*", "+", ",",
           "-", ".", "/", "0", "1", "2", "3", "4", "5", "6", "7", "8", "9",
           ":", ";", "<", "=", ">", "?", "@", "A", "B", "C", "D", "E", "F",
           "G", "H", "I", "J", "K", "L", "M", "N", "O", "P", "Q", "R", "S",
           "T", "U", "V", "W", "X", "Y", "Z", "[", "\\", "]", "^", "_", "?",
           "a", "b", "c", "d", "e", "f", "g", "h", "i", "j", "k", "l", "m",
           "n", "o", "p", "q", "r", "s", "t", "u", "v", "w", "x", "y", "z",
           "{", "|", "}", "~">>

IndexIn(seq, c) == IF \E i \in 1..Len(seq) : seq[i] = c
                   THEN CHOOSE i \in 1..Len(seq) : seq[i] = c
                   ELSE 0

\* \d of the regular expression, on the characters of the model's alphabet.
IsDigit(c) == IndexIn(DIGITS, c) > 0

DigitVal(c) == IndexIn(DIGITS, c) - 1

\* str(n) of a natural number.
RECURSIVE Decimal(_)
Decimal(n) == IF n < 10 THEN <<DIGITS[n + 1]>>
              ELSE Decimal(n \div 10) \o <<DIGITS[(n % 10) + 1]>>

RECURSIVE ZeroPad(_, _)
ZeroPad(s, width) == IF Len(s) >= width THEN s ELSE ZeroPad(<<"0">> \o s, width)

\* f"{n:0<width>d}": at least width digits, zeros on the left.
Format(n, width) == ZeroPad(Decimal(n), width)

\* int(s) of a string of digits.
RECURSIVE ParseInt(_)
ParseInt(s) == IF s = <<>> THEN 0
               ELSE 10 * ParseInt(SubSeq(s, 1, Len(s) - 1)) + DigitVal(s[Len(s)])

\* s.startswith(p)
StartsWith(s, p) == Len(s) >= Len(p) /\ SubSeq(s, 1, Len(p)) = p

\* s.rfind(c), 1-based, 0 when c does not occur.
LastIndexOf(s, c) == LET I == {i \in 1..Len(s) : s[i] = c}
                     IN  IF I = {} THEN 0 ELSE Max(I)

\* os.path.basename(p)
Basename(p) == SubSeq(p, LastIndexOf(p, "/") + 1, Len(p))

\* os.path.splitext(name) of a name without "/": <<root, ext>>.  The last dot
\* splits unless only dots come before it.
Splitext(name) ==
    LET dot == LastIndexOf(name, ".")
    IN  IF dot = 0 \/ (\A i \in 1..(dot - 1) : name[i] = ".")
        THEN <<name, <<>>>>
        ELSE <<SubSeq(name, 1, dot - 1), SubSeq(name, dot, Len(name))>>

LowerChar(c) == IF IndexIn(UPPERCASE, c) > 0 THEN LOWERCASE[IndexIn(UPPERCASE, c)] ELSE c

\* s.lower()
Lower(s) == [i \in 1..Len(s) |-> LowerChar(s[i])]

HexVal(c) == IF IsDigit(c) THEN DigitVal(c)
             ELSE IF IndexIn(<<"A", "B", "C", "D", "E", "F">>, c) > 0
                  THEN 9 + IndexIn(<<"A", "B", "C", "D", "E", "F">>, c)
             ELSE IF IndexIn(<<"a", "b", "c", "d", "e", "f">>, c) > 0
                  THEN 9 + IndexIn(<<"a", "b", "c", "d", "e", "f">>, c)
             ELSE 0 - 1

\* chr(code) for the printable ASCII codes; any other byte decodes to "?".
CharOf(code) == IF code >= 32 /\ code <= 126 THEN ASCII[code - 31] ELSE "?"

\* urllib.parse.unquote: %XY with two hex digits is the byte XY, any other
\* character (a % without two hex digits too) stands for itself.
RECURSIVE Unquote(_)
Unquote(s) ==
    IF s = <<>> THEN <<>>
    ELSE IF s[1] = "%" /\ Len(s) >= 3 /\ HexVal(s[2]) >= 0 /\ HexVal(s[3]) >= 0
         THEN <<CharOf(16 * HexVal(s[2]) + HexVal(s[3]))>> \o Unquote(SubSeq(s, 4, Len(s)))
         ELSE <<s[1]>> \o Unquote(Tail(s))

\* urllib.parse.unquote_plus: + is a space, then unquote.
UnquotePlus(s) == Unquote([i \in 1..Len(s) |-> IF s[i] = "+" THEN " " ELSE s[i]])

\* ------------------------------------------------- the code's pure pieces

\* The prefix check left out.
IsUploadKeyMissing(key) == TRUE

\* key.startswith("upload/")
IsUploadKey(key) == StartsWith(key, UPLOAD)

\* ext not in (".pdf", ".png"), negated
Supported(ext) == ext \in {DOTPDF, DOTPNG}

\* The key used as it stands on the wire.
DecodeKeyRaw(record) == record.key

\* urllib.parse.unquote_plus(s3rec["object"]["key"])
DecodeKey(record) == UnquotePlus(record.key)

\* The extension compared as written, not lower-cased.
BaseExtCaseSensitive(key) == Splitext(Basename(key))

\* base, ext = os.path.splitext(os.path.basename(key)); ext = ext.lower()
BaseExt(key) == LET p == Splitext(Basename(key)) IN <<p[1], Lower(p[2])>>

\* Every original relocated, whatever its type.
MovesOriginalAlways(ext) == TRUE

\* No original relocated.
MovesOriginalNever(ext) == FALSE

\* if ext == ".png": move_original_to_raw(...)
MovesOriginal(ext) == ext = DOTPNG

\* if ext == ".pdf": process_pdf(...) else: process_png(...), as the step that
\* comes first in each
Materialize(ext) == IF ext = DOTPDF THEN "open" ELSE "png_put"

\* The page index left out of the name.
PageBaseNoIndex(base_name, page_num) == base_name

\* page_base = f"{base_name}_{page_num:04d}"
PageBase(base_name, page_num) == base_name \o <<"_">> \o Format(page_num, PageWidth)

\* The pages counted from 0, as range() does.
RawPageKeyZeroBased(base_name, page_num) == RAW \o PageBase(base_name, page_num - 1) \o DOTPNG

\* raw_png_key = f"raw/{page_base}.png"
RawPageKey(base_name, page_num) == RAW \o PageBase(base_name, page_num) \o DOTPNG

\* The raster of a PNG named like the first page of a document.
RawPngKeyPaged(base_name) == RawPageKey(base_name, 1)

\* raw_png_key = f"raw/{base_name}.png"
RawPngKey(base_name) == RAW \o base_name \o DOTPNG

\* The original uploaded back to the staging prefix.
RawOrigKeyStaging(base_name, ext) == UPLOAD \o base_name \o ext

\* raw_orig_key = f"raw/{base_name}{ext}"
RawOrigKey(base_name, ext) == RAW \o base_name \o ext

\* image_path = f"s3://{bucket}/{raw_png_key}"
ImagePath(bucket, raw_png_key) == S3SCHEME \o bucket \o <<"/">> \o raw_png_key

\* The number written without padding.
TaskKeyUnpadded(seq_num) == INGEST \o TASK_ \o Decimal(seq_num) \o DOTJSON

\* ingest_key = f"ingest/TASK_{seq_num:07d}.json"
TaskKey(seq_num) == INGEST \o TASK_ \o Format(seq_num, TaskWidth) \o DOTJSON

\* json.dump of one character of a str: the quote and the backslash are
\* escaped with a backslash, any other printable ASCII character is itself.
JsonChar(c) == IF c \in {"\"", "\\"} THEN <<"\\", c>> ELSE <<c>>

\* json.dump of a str, between its quotes: the escape of each character.
JsonString(str) == [i \in 1..Len(str) |-> JsonChar(str[i])]

\* json.loads of what stands between the quotes of a JSON string.
JsonUnstring(escapes) == [i \in 1..Len(escapes) |-> escapes[i][Len(escapes[i])]]

\* json.dump(tasks, f, indent=4) of a list of {"data": {"image": str}}, as the
\* tokens of the text written (the white space of the indentation left out).
JsonDump(tasks) ==
    LET Item(i) == (IF i > 1 THEN <<",">> ELSE <<>>)
                   \o <<"{", "data", ":", "{", "image", ":", JsonString(tasks[i].data.image), "}", "}">>
        Items[i \in 0..Len(tasks)] == IF i = 0 THEN <<>> ELSE Items[i - 1] \o Item(i)
    IN  <<"[">> \o Items[Len(tasks)] \o <<"]">>

\* json.load of such a text with one element; <<>> stands for any other text.
JsonLoads(text) ==
    IF /\ Len(text) = 11
       /\ <<text[1], text[2], text[3], text[4], text[5], text[6], text[7]>>
             = <<"[", "{", "data", ":", "{", "image", ":">>
       /\ <<text[9], text[10], text[11]>> = <<"}", "}", "]">>
    THEN <<[data |-> [image |-> JsonUnstring(text[8])]]>>
    ELSE <<>>

\* task = {"data": {"image": image_s3_path}}; json.dump([task], f, indent=4):
\* the content of the object written, as the value a reader parses out of it.
TaskBody(image_s3_path) == JsonLoads(JsonDump(<<[data |-> [image |-> image_s3_path]]>>))

\* A stored object: a source document (kind "pdf" with n pages, "png"), a raster
\* rendered from page n of document id, a work item with its body, or any other.
Obj(kind, id, n, body) == [kind |-> kind, id |-> id, n |-> n, body |-> body]

\* s3.upload_file(local, bucket, key): the key holds the new content, whatever
\* it held before.
Put(st, key, content) == [k \in (DOMAIN st) \cup {key} |-> IF k = key THEN content ELSE st[k]]

\* s3.delete_object(Bucket=bucket, Key=key)
Delete(st, key) == [k \in (DOMAIN st) \ {key} |-> st[k]]

\* s3.list_objects_v2(Bucket=bucket, Prefix=prefix)["Contents"], as the set of
\* keys: the response is taken to hold every key under the prefix.
ListObjects(st, prefix) == {k \in DOMAIN st : StartsWith(k, prefix)}

\* No name taken for a work item.
MatchTaskNone(name) == <<>>

\* re.match(r"TASK_(\d+)\.json", name): the digits of group 1, <<>> for no
\* match.  re.match anchors the pattern at the start of name only, so whatever
\* follows ".json" is not looked at.
MatchTask(name) ==
    IF ~StartsWith(name, TASK_) THEN <<>>
    ELSE LET rest == SubSeq(name, Len(TASK_) + 1, Len(name))
             run  == Max({n \in 0..Len(rest) : \A i \in 1..n : IsDigit(rest[i])})
         IN  IF run >= 1 /\ StartsWith(SubSeq(rest, run + 1, Len(rest)), DOTJSON)
             THEN SubSeq(rest, 1, run)
             ELSE <<>>

\* The largest number in use, not the one after it.
GetNextTaskSequenceNoIncrement(st, prefix) ==
    LET nums == {ParseInt(MatchTask(Basename(k))) :
                   k \in {c \in ListObjects(st, prefix) : MatchTask(Basename(c)) # <<>>}}
    IN  IF nums = {} THEN 1 ELSE Max(nums)

\* get_next_task_sequence(bucket, prefix)
GetNextTaskSequence(st, prefix) ==
    LET nums == {ParseInt(MatchTask(Basename(k))) :
                   k \in {c \in ListObjects(st, prefix) : MatchTask(Basename(c)) # <<>>}}
    IN  IF nums = {} THEN 1 ELSE Max(nums) + 1

\* dict.get(key) of a parsed JSON object
DictGet(d, key) == IF key \in DOMAIN d THEN d[key] ELSE "None"

\* Any JSON object answered taken for a completed sync.
SyncStatusAnyObject(sync_response_json) == "success"

\* sync_status after the POST returned the JSON object sync_response_json
SyncStatus(sync_response_json) ==
    IF DictGet(sync_response_json, "status") = "completed" THEN "success" ELSE "failed"

\* The overall status taken from the sync.
LambdaReturnSyncStatus(sync_status, sync_response_json) ==
    [status |-> sync_status,
     sync   |-> [status |-> sync_status, response |-> sync_response_json]]

\* the value lambda_handler returns
LambdaReturn(sync_status, sync_response_json) ==
    [status |-> "success",
     sync   |-> [status |-> sync_status, response |-> sync_response_json]]

\* ---------------------------------------------------------------- inputs

BUCKET == <<"b", "k", "t">>

\* One SQS record: its body is the JSON of an S3 event naming bucket and key
\* (the key escaped as on the wire), or is not JSON at all.
Notification(key) == [body |-> "json", bucket |-> BUCKET, key |-> key]

Malformed == [body |-> "garbage", bucket |-> <<>>, key |-> <<>>]

\* upload/a+b.PDF on the wire is the object upload/a b.PDF
WirePdf == UPLOAD \o <<"a", "+", "b", ".", "P", "D", "F">>

StoredPdf == UPLOAD \o <<"a", " ", "b", ".", "P", "D", "F">>

\* upload/b%2Epng on the wire is the object upload/b.png
WirePng == UPLOAD \o <<"b", "%", "2", "E", "p", "n", "g">>

StoredPng == UPLOAD \o <<"b">> \o DOTPNG

\* a derived object, outside the staging prefix
WireDerived == RAW \o <<"b">> \o DOTPNG

WireTxt == UPLOAD \o <<"a", ".", "t", "x", "t">>

Notifications == {Notification(WirePdf), Notification(WirePng),
                  Notification(WireDerived), Notification(WireTxt), Malformed}

Batches == UNION {[1..n -> Notifications] : n \in 0..MaxRecords}

NoObjects == [k \in {} |-> Obj("other", "", 0, <<>>)]

\* The staging area before the batch: the uploaded originals.
Staged(pages) ==
    Put(Put(Put(NoObjects,
        StoredPdf, Obj("pdf", "a b", pages, <<>>)),
        StoredPng, Obj("png", "b", 0, <<>>)),
        WireTxt, Obj("other", "t", 0, <<>>))

OldTask == Obj("task", "", 0, TaskBody(ImagePath(BUCKET, RAW \o <<"o", "l", "d">> \o DOTPNG)))

Junk == Obj("other", "", 0, <<>>)

\* Earlier work items, written out of order.
EarlierItems ==
    Put(Put(Put(NoObjects, TaskKey(1), OldTask), TaskKey(3), OldTask), TaskKey(2), OldTask)

\* What ingest/ may hold before the batch: nothing; earlier work items; keys
\* that are no work items; a work item beside a backup copy of a later one.
IngestBefore ==
    { NoObjects,
      EarlierItems,
      Put(Put(Put(NoObjects,
          INGEST \o <<"n", "o", "t", "e", "s", ".", "t", "x", "t">>, Junk),
          INGEST \o <<"x">> \o TASK_ \o <<"7">> \o DOTJSON, Junk),
          INGEST \o TASK_ \o DOTJSON, Junk),
      Put(Put(NoObjects, TaskKey(2), OldTask),
          TaskKey(9) \o <<".", "b", "a", "k">>, Junk) }

\* The objects of f and of g together (g's where both hold a key).
Merge(f, g) == [k \in (DOMAIN f) \cup (DOMAIN g) |-> IF k \in DOMAIN g THEN g[k] ELSE f[k]]

\* What the sync endpoint may answer to the POST: no answer (transport error),
\* an HTTP error status, or 200 with a body that is not JSON, is a JSON array,
\* or is a JSON object with status "completed", another status or none.
SyncAnswers ==
    { [error |-> "transport", body |-> "none",    json |-> <<>>],
      [error |-> "http",      body |-> "none",    json |-> <<>>],
      [error |-> "none",      body |-> "garbage", json |-> <<>>],
      [error |-> "none",      body |-> "array",   json |-> <<>>],
      [error |-> "none",      body |-> "object",  json |-> [status |-> "completed"]],
      [error |-> "none",      body |-> "object",  json |-> [status |-> "running"]],
      [error |-> "none",      body |-> "object",  json |-> [detail |-> "queued"]] }

\* ----------------------------------------------------------------- state

VARIABLES
    store,      \* the bucket: key -> object
    batch,      \* per worker: event["Records"]
    pc,         \* per worker: where its lambda_handler stands
    idx,        \* per worker: the record of the batch it is at (1-based)
    cur,        \* per worker: process_s3_record's locals, and what it did so far
    tmp,        \* per worker: whether its TemporaryDirectory exists
    outcome,    \* per worker: how each record attempted so far ended
    syncCalls,  \* per worker: how many times requests.post was called
    answer,     \* per worker: what the sync endpoint answered
    result      \* per worker: what lambda_handler returned

vars == <<store, batch, pc, idx, cur, tmp, outcome, syncCalls, answer, result>>

Workers == DOMAIN pc

NoDoc == Obj("none", "", 0, <<>>)

\* The locals of a record whose key and type are now known, with what the
\* record has done so far: its calls on the object store (ops), the rasters it
\* uploaded (rasters), the work items it wrote (items), and the keys its
\* materialization collected to return (keys).
Locals(bucket, key, base, ext) ==
    [bucket |-> bucket, key |-> key, base |-> base, ext |-> ext,
     doc |-> NoDoc, page_count |-> 0, page |-> 0, raw_key |-> <<>>, seq |-> 0,
     rasters |-> <<>>, keys |-> <<>>, ops |-> <<>>, items |-> <<>>]

NoResult == [status |-> "none"]

NoAnswer == [error |-> "unasked", body |-> "none", json |-> <<>>]

InitWorkers(W, befores) ==
    /\ \E pages \in 0..MaxPages, before \in befores : store = Merge(Staged(pages), before)
    /\ pc = [w \in W |-> "loop"]
    /\ idx = [w \in W |-> 1]
    /\ cur = [w \in W |-> Locals(<<>>, <<>>, <<>>, <<>>)]
    /\ tmp = [w \in W |-> FALSE]
    /\ outcome = [w \in W |-> <<>>]
    /\ syncCalls = [w \in W |-> 0]
    /\ answer = [w \in W |-> NoAnswer]
    /\ result = [w \in W |-> NoResult]

\* One invocation, any batch.
Init ==
    /\ InitWorkers({1}, IngestBefore)
    /\ \E b \in Batches : batch = [w \in {1} |-> b]

\* --------------------------------------------------------------- actions

\* c with one more call on the object store logged.
Did(c, op, key) == [c EXCEPT !.ops = Append(@, [op |-> op, key |-> key])]

\* The worker moves on inside the record.
Goto(w, label, c) ==
    /\ cur' = [cur EXCEPT ![w] = c]
    /\ pc' = [pc EXCEPT ![w] = label]
    /\ UNCHANGED <<outcome, idx, tmp>>

\* The record is over and its temporary directory is left as it is.
FinishLeaks(w, status, c) ==
    /\ outcome' = [outcome EXCEPT ![w] = Append(@, [status |-> status, rec |-> c])]
    /\ cur' = [cur EXCEPT ![w] = c]
    /\ idx' = [idx EXCEPT ![w] = @ + 1]
    /\ pc' = [pc EXCEPT ![w] = "loop"]
    /\ tmp' = tmp

\* process_s3_record is over: the with-block (if entered) has released the
\* temporary directory, and the for-loop of lambda_handler takes the next record.
Finish(w, status, c) ==
    /\ outcome' = [outcome EXCEPT ![w] = Append(@, [status |-> status, rec |-> c])]
    /\ cur' = [cur EXCEPT ![w] = c]
    /\ idx' = [idx EXCEPT ![w] = @ + 1]
    /\ pc' = [pc EXCEPT ![w] = "loop"]
    /\ tmp' = [tmp EXCEPT ![w] = FALSE]

\* The exception of a record not caught by lambda_handler: the run ends there.
RecordFailedAborts(w, c) ==
    /\ outcome' = [outcome EXCEPT ![w] = Append(@, [status |-> "failed", rec |-> c])]
    /\ cur' = [cur EXCEPT ![w] = c]
    /\ idx' = idx
    /\ pc' = [pc EXCEPT ![w] = "raised"]
    /\ tmp' = [tmp EXCEPT ![w] = FALSE]

\* The record that failed is taken again.
RecordFailedRetries(w, c) ==
    /\ outcome' = [outcome EXCEPT ![w] = Append(@, [status |-> "failed", rec |-> c])]
    /\ cur' = [cur EXCEPT ![w] = c]
    /\ idx' = idx
    /\ pc' = [pc EXCEPT ![w] = "loop"]
    /\ tmp' = [tmp EXCEPT ![w] = FALSE]

\* An exception leaves process_s3_record; lambda_handler's except logs it and
\* the loop goes on.
RecordFailed(w, c) == Finish(w, "failed", c)

\* The sync reached from inside the loop, after the first record.
BatchDrainedAfterFirst(w) == idx[w] > 1 \/ idx[w] > Len(batch[w])

\* for record in event["Records"]: no record is left.
BatchDrained(w) == idx[w] > Len(batch[w])

\* The page count not looked at.
NoPagesIgnored(page_count) == FALSE

\* if doc.page_count == 0: ... raise Exception("No pages found in PDF")
NoPages(page_count) == page_count = 0

\* range(doc.page_count - 1): the last page left out.
MorePagesShort(page, page_count) == page + 1 < page_count

\* for page_num in range(doc.page_count): a page follows page (1-based).
MorePages(page, page_count) == page < page_count

\* lambda_handler takes the next record; process_s3_record decodes it, checks
\* prefix and type, and enters the temporary directory.
StartRecord(w) ==
    /\ pc[w] = "loop"
    /\ ~BatchDrained(w)
    /\ LET record == batch[w][idx[w]]
           key    == DecodeKey(record)
           be     == BaseExt(key)
       IN  IF record.body # "json"
           THEN RecordFailed(w, Locals(<<>>, <<>>, <<>>, <<>>))
           ELSE IF ~IsUploadKey(key)
           THEN Finish(w, "skipped", Locals(record.bucket, key, <<>>, <<>>))
           ELSE IF ~Supported(be[2])
           THEN Finish(w, "skipped", Locals(record.bucket, key, be[1], be[2]))
           ELSE /\ cur' = [cur EXCEPT ![w] = Locals(record.bucket, key, be[1], be[2])]
                /\ tmp' = [tmp EXCEPT ![w] = TRUE]
                /\ pc' = [pc EXCEPT ![w] = "download"]
                /\ UNCHANGED <<outcome, idx>>
    /\ UNCHANGED <<store, batch, syncCalls, answer, result>>

\* s3.download_file(bucket, key, local_in)
Download(w) ==
    /\ pc[w] = "download"
    /\ \E ok \in BOOLEAN :
         LET c == Did(cur[w], "get", cur[w].key)
         IN  IF ok /\ cur[w].key \in DOMAIN store
             THEN Goto(w, IF MovesOriginal(c.ext) THEN "move_put" ELSE Materialize(c.ext),
                       [c EXCEPT !.doc = store[c.key]])
             ELSE RecordFailed(w, c)
    /\ UNCHANGED <<store, batch, syncCalls, answer, result>>

\* move_original_to_raw: s3.upload_file(local_file, bucket, raw_orig_key)
MovePut(w) ==
    /\ pc[w] = "move_put"
    /\ \E ok \in BOOLEAN :
         LET raw_orig_key == RawOrigKey(cur[w].base, cur[w].ext)
             c == Did(cur[w], "put", raw_orig_key)
         IN  IF ok
             THEN store' = Put(store, raw_orig_key, c.doc) /\ Goto(w, "move_delete", c)
             ELSE store' = store /\ RecordFailed(w, c)
    /\ UNCHANGED <<batch, syncCalls, answer, result>>

\* move_original_to_raw: s3.delete_object(Bucket=bucket, Key=original_key)
MoveDelete(w) ==
    /\ pc[w] = "move_delete"
    /\ \E ok \in BOOLEAN :
         LET c == Did(cur[w], "delete", cur[w].key)
         IN  IF ok
             THEN store' = Delete(store, c.key) /\ Goto(w, Materialize(c.ext), c)
             ELSE store' = store /\ RecordFailed(w, c)
    /\ UNCHANGED <<batch, syncCalls, answer, result>>

\* process_pdf: fitz.open, the page count, and the loop entered at its first
\* page (left at once, with no key, were there no page to take)
OpenPdf(w) ==
    /\ pc[w] = "open"
    /\ \E ok \in BOOLEAN :
         LET c == cur[w]
         IN  IF ~ok \/ c.doc.kind # "pdf" \/ NoPages(c.doc.n)
             THEN RecordFailed(w, c)
             ELSE IF MorePages(0, c.doc.n)
             THEN Goto(w, "render", [c EXCEPT !.page_count = c.doc.n, !.page = 1])
             ELSE Finish(w, "done", [c EXCEPT !.page_count = c.doc.n])
    /\ UNCHANGED <<store, batch, syncCalls, answer, result>>

\* process_pdf_page: doc[page_num], page.get_pixmap, pix.save
RenderPage(w) ==
    /\ pc[w] = "render"
    /\ \E ok \in BOOLEAN :
         IF ok THEN Goto(w, "page_put", cur[w]) ELSE RecordFailed(w, cur[w])
    /\ UNCHANGED <<store, batch, syncCalls, answer, result>>

\* process_pdf_page: s3.upload_file(page_png, bucket, raw_png_key)
UploadPage(w) ==
    /\ pc[w] = "page_put"
    /\ \E ok \in BOOLEAN :
         LET raw_png_key == RawPageKey(cur[w].base, cur[w].page)
             c == Did([cur[w] EXCEPT !.raw_key = raw_png_key], "put", raw_png_key)
         IN  IF ok
             THEN /\ store' = Put(store, raw_png_key, Obj("raster", c.doc.id, c.page, <<>>))
                  /\ Goto(w, "list", [c EXCEPT !.rasters = Append(@, raw_png_key)])
             ELSE store' = store /\ RecordFailed(w, c)
    /\ UNCHANGED <<batch, syncCalls, answer, result>>

\* process_png: the copy of local_in, s3.upload_file(local_png, bucket, raw_png_key)
UploadPng(w) ==
    /\ pc[w] = "png_put"
    /\ \E ok \in BOOLEAN :
         LET raw_png_key == RawPngKey(cur[w].base)
             c == Did([cur[w] EXCEPT !.raw_key = raw_png_key], "put", raw_png_key)
         IN  IF ok
             THEN /\ store' = Put(store, raw_png_key, c.doc)
                  /\ Goto(w, "list", [c EXCEPT !.rasters = Append(@, raw_png_key)])
             ELSE store' = store /\ RecordFailed(w, c)
    /\ UNCHANGED <<batch, syncCalls, answer, result>>

\* seq = get_next_task_sequence(bucket)
ListTasks(w) ==
    /\ pc[w] = "list"
    /\ \E ok \in BOOLEAN :
         LET c == Did(cur[w], "list", INGEST)
         IN  IF ok
             THEN Goto(w, "task_put", [c EXCEPT !.seq = GetNextTaskSequence(store, INGEST)])
             ELSE RecordFailed(w, c)
    /\ UNCHANGED <<store, batch, syncCalls, answer, result>>

\* create_and_upload_task(bucket, image_path, seq, tmp_dir), and the return of
\* process_pdf_page into the loop of process_pdf, or of process_png.  An item
\* records whether its key was new to the store when it was written.
UploadTask(w) ==
    /\ pc[w] = "task_put"
    /\ \E ok \in BOOLEAN :
         LET image_path == ImagePath(cur[w].bucket, cur[w].raw_key)
             ingest_key == TaskKey(cur[w].seq)
             c == Did(cur[w], "put", ingest_key)
             d == [c EXCEPT !.items = Append(@, [seq |-> c.seq, image |-> image_path,
                                                 key |-> ingest_key,
                                                 fresh |-> ingest_key \notin DOMAIN store]),
                            !.keys = Append(@, c.raw_key)]
         IN  IF ok
             THEN /\ store' = Put(store, ingest_key, Obj("task", "", 0, TaskBody(image_path)))
                  /\ IF c.ext = DOTPDF /\ MorePages(c.page, c.page_count)
                     THEN Goto(w, "render", [d EXCEPT !.page = @ + 1])
                     ELSE Finish(w, "done", d)
             ELSE store' = store /\ RecordFailed(w, c)
    /\ UNCHANGED <<batch, syncCalls, answer, result>>

\* After the loop: requests.post, raise_for_status, response.json(), the status
\* check, and the return.  A transport error, an HTTP error status and a body
\* that is not JSON (requests.exceptions.JSONDecodeError since requests 2.27)
\* are RequestExceptions, which the except clause catches; a JSON body that is
\* no object has no .get, and that AttributeError is not caught.
TriggerSync(w) ==
    /\ pc[w] = "loop"
    /\ BatchDrained(w)
    /\ syncCalls' = [syncCalls EXCEPT ![w] = @ + 1]
    /\ \E a \in SyncAnswers :
         LET Return(v) == /\ result' = [result EXCEPT ![w] = v]
                          /\ pc' = [pc EXCEPT ![w] = "returned"]
                          /\ answer' = [answer EXCEPT ![w] = a]
             Raise     == /\ result' = result
                          /\ pc' = [pc EXCEPT ![w] = "raised"]
                          /\ answer' = [answer EXCEPT ![w] = a]
         IN  IF a.error # "none" THEN Return(LambdaReturn("failed", [error |-> a.error]))
             ELSE IF a.body = "garbage"
             THEN Return(LambdaReturn("failed", [error |-> "json"]))
             ELSE IF a.body = "array" THEN Raise
             ELSE Return(LambdaReturn(SyncStatus(a.json), a.json))
    /\ UNCHANGED <<store, batch, idx, cur, tmp, outcome>>

Next ==
    \/ \E w \in Workers : StartRecord(w)
    \/ \E w \in Workers : Download(w)
    \/ \E w \in Workers : MovePut(w)
    \/ \E w \in Workers : MoveDelete(w)
    \/ \E w \in Workers : OpenPdf(w)
    \/ \E w \in Workers : RenderPage(w)
    \/ \E w \in Workers : UploadPage(w)
    \/ \E w \in Workers : UploadPng(w)
    \/ \E w \in Workers : ListTasks(w)
    \/ \E w \in Workers : UploadTask(w)
    \/ \E w \in Workers : TriggerSync(w)

Spec == Init /\ [][Next]_vars

\* Two invocations at once on the same bucket, one record each: a PDF or a PNG.
ConcurrentBatches == [1..1 -> {Notification(WirePdf), Notification(WirePng)}]

InitConc ==
    /\ InitWorkers({1, 2}, {NoObjects, EarlierItems})
    /\ \E b1 \in ConcurrentBatches, b2 \in ConcurrentBatches : batch = <<b1, b2>>

SpecConc == InitConc /\ [][Next]_vars

\* ---------------------------------------------------------------- claims

\* The records a worker has ended so far, as <<worker, position in its batch>>.
Ended == UNION {{<<w, i>> : i \in 1..Len(outcome[w])} : w \in Workers}

\* No worker is inside a record.
BetweenRecords == \A w \in Workers : pc[w] \in {"loop", "returned", "raised"}

\* The work items of the store whose data.image is image.
ItemsFor(image) ==
    {t \in DOMAIN store : /\ StartsWith(t, INGEST)
                          /\ store[t].kind = "task"
                          /\ Len(store[t].body) = 1
                          /\ store[t].body[1].data.image = image}

\* raw/<base>_<i zero-padded to 4 digits>.png, written out
PageKeyOf(base, i) ==
    <<"r", "a", "w", "/">> \o base \o <<"_">> \o ZeroPad(Decimal(i), 4) \o <<".", "p", "n", "g">>

\* s3://<bucket>/<key>, written out
RefOf(bucket, key) == <<"s", "3", ":", "/", "/">> \o bucket \o <<"/">> \o key

\* The store holds, under the key of item, the work item as it was written.
Holds(item) ==
    /\ item.key \in DOMAIN store
    /\ store[item.key] = Obj("task", "", 0, <<[data |-> [image |-> item.image]]>>)

\* C1: a PDF record of N >= 1 pages that ended without a failure returned the N
\* keys raw/<base>_0001.png .. raw/<base>_<N>.png in page order, all in the
\* store, and wrote N work items, the p-th referencing the p-th key, with
\* strictly increasing sequence numbers (one worker).
C1_PdfYieldsNKeysAndItems ==
    \A e \in Ended :
        LET o == outcome[e[1]][e[2]]
            r == o.rec
        IN  (o.status = "done" /\ r.ext = DOTPDF) =>
               /\ r.doc.n >= 1
               /\ Len(r.keys) = r.doc.n
               /\ Len(r.items) = r.doc.n
               /\ \A p \in 1..Len(r.keys) :
                     /\ r.keys[p] = PageKeyOf(r.base, p)
                     /\ r.keys[p] \in DOMAIN store
               /\ \A p \in 1..Len(r.items) :
                     /\ r.items[p].image = RefOf(r.bucket, PageKeyOf(r.base, p))
                     /\ Holds(r.items[p])
               /\ \A p, q \in 1..Len(r.items) : p < q => r.items[p].seq < r.items[q].seq

\* A 2-page PDF went through after earlier work items 1..3: keys _0001, _0002,
\* work items 4 and 5.
C1_Witness ==
    \E e \in Ended :
        LET o == outcome[e[1]][e[2]]
        IN  /\ o.status = "done"
            /\ o.rec.keys = << <<"r", "a", "w", "/", "a", " ", "b", "_", "0", "0", "0", "1", ".", "p", "n", "g">>,
                               <<"r", "a", "w", "/", "a", " ", "b", "_", "0", "0", "0", "2", ".", "p", "n", "g">> >>
            /\ Len(o.rec.items) = 2
            /\ o.rec.items[1].seq = 4
            /\ o.rec.items[2].seq = 5

\* C2: a PDF record that failed while materializing page k leaves the rasters
\* and work items of pages 1..k-1 in the store as written, has put nothing for
\* a page after k, and the run still attempts every record of the batch.
C2_FailureAtPageK ==
    /\ \A e \in Ended :
        LET o == outcome[e[1]][e[2]]
            r == o.rec
            k == r.page
            rasters == {PageKeyOf(r.base, p) : p \in 1..k}
            written == {r.items[p].key : p \in 1..Len(r.items)}
            puts == {j \in 1..Len(r.ops) : r.ops[j].op = "put"}
        IN  (o.status = "failed" /\ r.ext = DOTPDF /\ k >= 1) =>
               /\ Len(r.keys) = k - 1
               /\ Len(r.items) = k - 1
               /\ \A p \in 1..(k - 1) :
                     /\ PageKeyOf(r.base, p) \in DOMAIN store
                     /\ store[PageKeyOf(r.base, p)] = Obj("raster", r.doc.id, p, <<>>)
                     /\ r.items[p].image = RefOf(r.bucket, PageKeyOf(r.base, p))
                     /\ Holds(r.items[p])
               /\ \A j \in puts :
                     \/ r.ops[j].key \in rasters
                     \/ r.ops[j].key \in written
                     \/ (r.ops[j].key = TaskKey(r.seq) /\ j = Len(r.ops))
               /\ Cardinality(puts) <= 2 * k
    /\ \A w \in Workers :
          /\ idx[w] = Len(outcome[w]) + 1
          /\ pc[w] \in {"returned", "raised"} => Len(outcome[w]) = Len(batch[w])

\* The first record failed on page 2 with page 1 written, and the second
\* record of the batch went through.
C2_Witness ==
    \E w \in Workers :
        /\ Len(outcome[w]) = 2
        /\ outcome[w][1].status = "failed"
        /\ outcome[w][1].rec.ext = DOTPDF
        /\ outcome[w][1].rec.page = 2
        /\ Len(outcome[w][1].rec.items) = 1
        /\ outcome[w][2].status = "done"

\* The file names of the exact form TASK_<digits>.json, and their numbers.
IsTaskName(name) ==
    /\ Len(name) > Len(TASK_) + Len(DOTJSON)
    /\ SubSeq(name, 1, Len(TASK_)) = TASK_
    /\ SubSeq(name, Len(name) - Len(DOTJSON) + 1, Len(name)) = DOTJSON
    /\ \A i \in (Len(TASK_) + 1)..(Len(name) - Len(DOTJSON)) : IsDigit(name[i])

TaskNumber(name) == ParseInt(SubSeq(name, Len(TASK_) + 1, Len(name) - Len(DOTJSON)))

\* C3: the number get_next_task_sequence returned is 1 + the largest number
\* among the stored keys under ingest/ named TASK_<digits>.json, and 1 when
\* there is none.
C3_NextIsMaxPlusOne ==
    \A w \in Workers :
        pc[w] = "task_put" =>
            LET nums == {TaskNumber(Basename(k)) :
                           k \in {c \in DOMAIN store : StartsWith(c, INGEST) /\ IsTaskName(Basename(c))}}
            IN  cur[w].seq = IF nums = {} THEN 1 ELSE Max(nums) + 1

\* How many materializations of raster key k ran to their end (raster upload,
\* listing and work-item write).
Completed(k) ==
    Cardinality(UNION {{<<e, p>> : p \in {q \in 1..Len(outcome[e[1]][e[2]].rec.keys) :
                                           outcome[e[1]][e[2]].rec.keys[q] = k}} : e \in Ended})

\* The raster keys that the materialization of a record that has ended uploaded.
RastersWritten ==
    UNION {{outcome[e[1]][e[2]].rec.rasters[p] : p \in 1..Len(outcome[e[1]][e[2]].rec.rasters)} :
             e \in Ended}

\* C4, as claimed: between records, every raster that was uploaded has exactly
\* one work item referencing it.
C4_ExactlyOneItemPerRaster ==
    BetweenRecords =>
        \A k \in RastersWritten :
            k \in DOMAIN store /\ Cardinality(ItemsFor(RefOf(BUCKET, k))) = 1

\* C4, amended: between records, every raster that was uploaded is in the store
\* and has one work item per completed materialization of its key (one worker).
C4_OneItemPerCompletedMaterialization ==
    BetweenRecords =>
        \A k \in RastersWritten :
            k \in DOMAIN store /\ Cardinality(ItemsFor(RefOf(BUCKET, k))) = Completed(k)

\* The same 1-page PDF was notified twice and both went through: its one
\* raster has two work items.
C4_Witness ==
    /\ BetweenRecords
    /\ \E k \in RastersWritten :
          /\ Completed(k) = 2
          /\ Cardinality(ItemsFor(RefOf(BUCKET, k))) = 2

\* The work items worker w has written so far.
Written(w) ==
    UNION ({{outcome[w][i].rec.items[j] : j \in 1..Len(outcome[w][i].rec.items)} :
               i \in 1..Len(outcome[w])}
           \cup {{cur[w].items[j] : j \in 1..Len(cur[w].items)}})

\* C5: with two invocations on one bucket the listing and the write are two
\* steps: a work item is written over an existing key only when the other
\* invocation wrote that key, under the same number, after this one listed;
\* the key then holds one item only.
C5_OverwriteOnlyByRace ==
    \A w \in Workers :
        \A it \in Written(w) :
            ~it.fresh =>
                /\ \E v \in Workers \ {w} : \E ot \in Written(v) : ot.key = it.key /\ ot.seq = it.seq
                /\ store[it.key].kind = "task"
                /\ Len(store[it.key].body) = 1

\* Both invocations ended their record without a failure, both wrote their work
\* item under the same number and key for different rasters, and the raster of
\* one of them is in the store with no work item referencing it.
C5_Witness ==
    /\ \A w \in Workers : pc[w] = "loop" /\ Len(outcome[w]) = 1 /\ outcome[w][1].status = "done"
    /\ \E w \in Workers, v \in Workers :
          \E it \in Written(w), ot \in Written(v) :
              /\ w # v
              /\ it.key = ot.key
              /\ it.seq = ot.seq
              /\ it.image # ot.image
              /\ ~ot.fresh
              /\ \E p \in 1..Len(outcome[w][1].rec.rasters) :
                    /\ outcome[w][1].rec.rasters[p] \in DOMAIN store
                    /\ it.image = RefOf(BUCKET, outcome[w][1].rec.rasters[p])
              /\ ItemsFor(it.image) = {}

C7_NeverRaises == \A w \in Workers : pc[w] # "raised"

\* C8: the sync is posted at most once, only when every record of the batch has
\* ended, and a run that is over has posted it.
C8_SyncOnceAfterBatch ==
    \A w \in Workers :
        /\ syncCalls[w] <= 1
        /\ syncCalls[w] = 1 =>
              /\ Len(outcome[w]) = Len(batch[w])
              /\ \A i \in 1..Len(outcome[w]) : outcome[w][i].status \in {"done", "skipped", "failed"}
        /\ pc[w] \in {"returned", "raised"} => syncCalls[w] = 1

\* The sync was posted after a batch whose first record failed and whose second
\* went through.
C8_Witness ==
    \E w \in Workers :
        /\ syncCalls[w] = 1
        /\ Len(batch[w]) = 2
        /\ outcome[w][1].status = "failed"
        /\ outcome[w][2].status = "done"

\* The records that have just ended: the last one of each worker that stands
\* between two records.  Every record is the last one in the state it ends in,
\* and what is recorded of it never changes.
JustEnded == {e \in Ended : pc[e[1]] = "loop" /\ e[2] = Len(outcome[e[1]])}

\* C9: a record whose unescaped key does not begin with upload/ ends as skipped,
\* with no call on the object store and no work item.
C9_NonUploadSkipped ==
    \A e \in JustEnded :
        LET o == outcome[e[1]][e[2]]
            n == batch[e[1]][e[2]]
        IN  (n.body = "json" /\ ~StartsWith(UnquotePlus(n.key), <<"u", "p", "l", "o", "a", "d", "/">>)) =>
               /\ o.status = "skipped"
               /\ o.rec.ops = <<>>
               /\ o.rec.items = <<>>

\* The record of raw/b.png ended as skipped while raw/b.png is in the store.
C9_Witness ==
    \E e \in Ended :
        /\ batch[e[1]][e[2]].key = <<"r", "a", "w", "/", "b", ".", "p", "n", "g">>
        /\ outcome[e[1]][e[2]].status = "skipped"
        /\ batch[e[1]][e[2]].key \in DOMAIN store

\* C10: a record under upload/ whose extension, lower-cased, is neither .pdf nor
\* .png ends as skipped with no call on the object store; one whose extension
\* is .pdf or .png in any letter case is fetched first of all.
C10_UnsupportedSkipped ==
    \A e \in JustEnded :
        LET o   == outcome[e[1]][e[2]]
            n   == batch[e[1]][e[2]]
            key == UnquotePlus(n.key)
            ext == Lower(Splitext(Basename(key))[2])
        IN  (n.body = "json" /\ StartsWith(key, <<"u", "p", "l", "o", "a", "d", "/">>)) =>
               IF ext \in {<<".", "p", "d", "f">>, <<".", "p", "n", "g">>}
               THEN /\ o.status # "skipped"
                    /\ Len(o.rec.ops) >= 1
                    /\ o.rec.ops[1] = [op |-> "get", key |-> key]
               ELSE /\ o.status = "skipped"
                    /\ o.rec.ops = <<>>
                    /\ o.rec.items = <<>>

\* upload/a.txt was skipped and upload/a b.PDF, notified as upload/a+b.PDF, went
\* through.
C10_Witness ==
    \E w \in Workers :
        /\ Len(outcome[w]) = 2
        /\ batch[w][1].key = <<"u", "p", "l", "o", "a", "d", "/", "a", ".", "t", "x", "t">>
        /\ outcome[w][1].status = "skipped"
        /\ batch[w][2].key = <<"u", "p", "l", "o", "a", "d", "/", "a", "+", "b", ".", "P", "D", "F">>
        /\ outcome[w][2].status = "done"

\* The keys a record may name in a call on the object store, given the
\* unescaped key of its notification: that key, raw/<base><ext>, raw/<base>.png,
\* the page rasters raw/<base>_<page>.png, the prefix ingest/ and the keys of
\* the work items it wrote or is writing.
KeysFrom(key, c) ==
    LET name == SubSeq(key, LastIndexOf(key, "/") + 1, Len(key))
        base == Splitext(name)[1]
        ext  == Lower(Splitext(name)[2])
    IN  {key, <<"r", "a", "w", "/">> \o base \o ext, <<"r", "a", "w", "/">> \o base \o <<".", "p", "n", "g">>,
         <<"i", "n", "g", "e", "s", "t", "/">>}
        \cup {PageKeyOf(base, p) : p \in 1..c.page}
        \cup {c.items[j].key : j \in 1..Len(c.items)}
        \cup {k \in {TaskKey(c.seq)} : c.seq > 0}

\* C11: whatever a record does on the object store, it does with the unescaped
\* key of its notification: the prefix check and the type check are made on it,
\* the first call is the fetch of it, every later call names it or a key
\* derived from it, and no call names the key as escaped on the wire.  (Looked
\* at while the record is under way and when it has just ended: nothing of it
\* changes later.)
C11_KeyUnescapedFirst ==
    \A w \in Workers :
        ((idx[w] > 1 /\ pc[w] = "loop") \/ pc[w] \notin {"loop", "returned", "raised"}) =>
            LET i   == IF pc[w] = "loop" THEN idx[w] - 1 ELSE idx[w]
                n   == batch[w][i]
                c   == cur[w]
                key == UnquotePlus(n.key)
                ext == Lower(Splitext(Basename(key))[2])
                from == KeysFrom(key, c)
            IN  n.body = "json" =>
                   /\ c.key = key
                   /\ (c.ops # <<>> \/ pc[w] = "download") <=>
                         (StartsWith(key, <<"u", "p", "l", "o", "a", "d", "/">>)
                          /\ ext \in {<<".", "p", "d", "f">>, <<".", "p", "n", "g">>})
                   /\ c.ops # <<>> => c.ops[1] = [op |-> "get", key |-> key]
                   /\ \A j \in 1..Len(c.ops) :
                         /\ c.ops[j].key \in from
                         /\ n.key # key => c.ops[j].key # n.key
                         /\ c.ops[j].op = "delete" => c.ops[j].key = key

\* Both escapes went through: upload/a+b.PDF was fetched as upload/a b.PDF and
\* its page written to raw/a b_0001.png, and upload/b%2Epng was fetched and
\* deleted as upload/b.png.
C11_Witness ==
    \E w \in Workers :
        /\ Len(outcome[w]) = 2
        /\ batch[w][1].key = <<"u", "p", "l", "o", "a", "d", "/", "a", "+", "b", ".", "P", "D", "F">>
        /\ outcome[w][1].status = "done"
        /\ outcome[w][1].rec.ops[1] = [op |-> "get", key |-> <<"u", "p", "l", "o", "a", "d", "/", "a", " ", "b", ".", "P", "D", "F">>]
        /\ outcome[w][1].rec.ops[2].key = <<"r", "a", "w", "/", "a", " ", "b", "_", "0", "0", "0", "1", ".", "p", "n", "g">>
        /\ batch[w][2].key = <<"u", "p", "l", "o", "a", "d", "/", "b", "%", "2", "E", "p", "n", "g">>
        /\ outcome[w][2].status = "done"
        /\ outcome[w][2].rec.ops[1] = [op |-> "get", key |-> <<"u", "p", "l", "o", "a", "d", "/", "b", ".", "p", "n", "g">>]
        /\ outcome[w][2].rec.ops[3] = [op |-> "delete", key |-> <<"u", "p", "l", "o", "a", "d", "/", "b", ".", "p", "n", "g">>]

\* The workers whose batch is not over: once it is, nothing of their records or
\* of what they wrote changes any more.
Running == {w \in Workers : pc[w] \notin {"returned", "raised"}}

\* The calls of c that write: the positions of its puts.
Puts(c) == {j \in 1..Len(c.ops) : c.ops[j].op = "put"}

\* C12: a PDF record, at every step and however it ends, issues no delete and
\* puts only under raw/ and ingest/; the original stays at its staging key as
\* it was fetched; a record of N pages that went through has put N rasters and
\* N work items and nothing else.
C12_PdfOriginalLeftInPlace ==
    \A w \in Running :
        LET c == cur[w]
        IN  c.ext = <<".", "p", "d", "f">> =>
               /\ \A j \in 1..Len(c.ops) : c.ops[j].op # "delete"
               /\ \A j \in Puts(c) :
                     /\ c.ops[j].key # c.key
                     /\ \/ StartsWith(c.ops[j].key, <<"r", "a", "w", "/">>)
                        \/ StartsWith(c.ops[j].key, <<"i", "n", "g", "e", "s", "t", "/">>)
               /\ c.key \in DOMAIN store
               /\ store[c.key].kind = "pdf"
               /\ c.doc.kind # "none" => store[c.key] = c.doc
               /\ (pc[w] = "loop" /\ outcome[w][Len(outcome[w])].status = "done") =>
                     /\ Cardinality(Puts(c)) = 2 * c.doc.n
                     /\ Cardinality({j \in Puts(c) : StartsWith(c.ops[j].key, <<"r", "a", "w", "/">>)}) = c.doc.n
                     /\ Len(c.items) = c.doc.n

\* A PDF record failed after its first write, the same PDF then went through
\* with 2 pages and 4 writes, and upload/a b.PDF is still there.
C12_Witness ==
    \E w \in Workers :
        /\ Len(outcome[w]) = 2
        /\ outcome[w][1].status = "failed"
        /\ outcome[w][1].rec.ext = <<".", "p", "d", "f">>
        /\ Len(outcome[w][1].rec.ops) >= 2
        /\ outcome[w][2].status = "done"
        /\ outcome[w][2].rec.ext = <<".", "p", "d", "f">>
        /\ Cardinality(Puts(outcome[w][2].rec)) = 4
        /\ <<"u", "p", "l", "o", "a", "d", "/", "a", " ", "b", ".", "P", "D", "F">> \in DOMAIN store
        /\ store[<<"u", "p", "l", "o", "a", "d", "/", "a", " ", "b", ".", "P", "D", "F">>].n = 2

\* C13: the calls of a PNG record begin, in this order, with the fetch of the
\* original, its upload to raw/<base><ext>, the delete of the staging key, and
\* only then the raster upload of process_png; when process_png starts, raw/
\* holds the original and the staging key is gone (one worker).
C13_PngRelocatedFirst ==
    \A w \in Workers :
        LET c == cur[w]
            expected == << [op |-> "get",    key |-> c.key],
                           [op |-> "put",    key |-> <<"r", "a", "w", "/">> \o c.base \o c.ext],
                           [op |-> "delete", key |-> c.key],
                           [op |-> "put",    key |-> <<"r", "a", "w", "/">> \o c.base \o <<".", "p", "n", "g">>] >>
        IN  c.ext = <<".", "p", "n", "g">> =>
               /\ \A j \in 1..Len(c.ops) : j <= 4 => c.ops[j] = expected[j]
               /\ pc[w] = "move_put" => Len(c.ops) = 1
               /\ pc[w] = "move_delete" => Len(c.ops) = 2 /\ expected[2].key \in DOMAIN store
               /\ pc[w] = "png_put" =>
                     /\ Len(c.ops) = 3
                     /\ c.key \notin DOMAIN store
                     /\ expected[2].key \in DOMAIN store
                     /\ store[expected[2].key] = c.doc
               /\ pc[w] \in {"list", "task_put"} => Len(c.ops) >= 4
               /\ Len(c.items) > 0 => Len(c.ops) = 6

\* process_png is about to start for upload/b.png: the original is at raw/b.png
\* and no longer at upload/b.png.
C13_Witness ==
    \E w \in Workers :
        /\ pc[w] = "png_put"
        /\ cur[w].ops = << [op |-> "get",    key |-> <<"u", "p", "l", "o", "a", "d", "/", "b", ".", "p", "n", "g">>],
                           [op |-> "put",    key |-> <<"r", "a", "w", "/", "b", ".", "p", "n", "g">>],
                           [op |-> "delete", key |-> <<"u", "p", "l", "o", "a", "d", "/", "b", ".", "p", "n", "g">>] >>
        /\ <<"u", "p", "l", "o", "a", "d", "/", "b", ".", "p", "n", "g">> \notin DOMAIN store
        /\ store[<<"r", "a", "w", "/", "b", ".", "p", "n", "g">>].kind = "png"

\* C14: a PNG record that went through wrote one raster, raw/<base>.png, which
\* is in the store, wrote one work item, which references it and is in the
\* store as written, and process_png returned the list of that one key.
C14_PngYieldsOneKeyAndItem ==
    \A w \in Workers :
        LET c   == cur[w]
            key == <<"r", "a", "w", "/">> \o c.base \o <<".", "p", "n", "g">>
        IN  (pc[w] = "loop" /\ c.ext = <<".", "p", "n", "g">>
             /\ outcome[w][Len(outcome[w])].status = "done") =>
               /\ c.keys = <<key>>
               /\ c.rasters = <<key>>
               /\ key \in DOMAIN store
               /\ store[key].kind = "png"
               /\ Len(c.items) = 1
               /\ c.items[1].image = RefOf(c.bucket, key)
               /\ Holds(c.items[1])
               /\ Cardinality({j \in Puts(c) : StartsWith(c.ops[j].key, <<"i", "n", "g", "e", "s", "t", "/">>)}) = 1

\* upload/b.png went through after the earlier work items 1..3: raw/b.png, and
\* work item 4 referencing s3://bkt/raw/b.png.
C14_Witness ==
    \E w \in Workers :
        /\ pc[w] = "loop"
        /\ Len(outcome[w]) >= 1
        /\ outcome[w][Len(outcome[w])].status = "done"
        /\ cur[w].keys = << <<"r", "a", "w", "/", "b", ".", "p", "n", "g">> >>
        /\ Len(cur[w].items) = 1
        /\ cur[w].items[1].seq = 4
        /\ cur[w].items[1].image = <<"s", "3", ":", "/", "/", "b", "k", "t", "/", "r", "a", "w", "/", "b", ".", "p", "n", "g">>
        /\ ItemsFor(cur[w].items[1].image) = {cur[w].items[1].key}

\* C15: a step of create_and_upload_task that writes puts one object and only
\* that one, under ingest/TASK_<seq, 7 digits, zeros on the left>.json, the key
\* it returns; the object parses back to a list of one element whose data.image
\* is s3://<bucket>/<raw key> of the raster just uploaded, which is in the store.
C15_TaskWrittenRoundTrip ==
    [][\A w \in Workers :
          (pc[w] = "task_put" /\ Len(cur'[w].items) = Len(cur[w].items) + 1) =>
              LET c   == cur[w]
                  it  == cur'[w].items[Len(cur'[w].items)]
                  key == <<"i", "n", "g", "e", "s", "t", "/", "T", "A", "S", "K", "_">>
                           \o ZeroPad(Decimal(c.seq), 7) \o <<".", "j", "s", "o", "n">>
                  r   == RefOf(c.bucket, c.raw_key)
              IN  /\ it.key = key
                  /\ it.seq = c.seq
                  /\ it.image = r
                  /\ cur'[w].ops = Append(c.ops, [op |-> "put", key |-> key])
                  /\ DOMAIN store' = (DOMAIN store) \cup {key}
                  /\ \A k \in (DOMAIN store) \ {key} : store'[k] = store[k]
                  /\ store'[key].kind = "task"
                  /\ Len(store'[key].body) = 1
                  /\ DOMAIN store'[key].body[1] = {"data"}
                  /\ DOMAIN store'[key].body[1].data = {"image"}
                  /\ store'[key].body[1].data.image = r
                  /\ c.raw_key \in DOMAIN store
                  /\ c.raw_key = c.rasters[Len(c.rasters)]]_vars

\* The work item numbered 10 was written for raw/b.png: the store holds
\* ingest/TASK_0000010.json, a list of one element whose data.image is
\* s3://bkt/raw/b.png.
C15_Witness ==
    \E w \in Workers :
        /\ Len(cur[w].items) = 1
        /\ cur[w].items[1].seq = 10
        /\ cur[w].items[1].key = <<"i", "n", "g", "e", "s", "t", "/", "T", "A", "S", "K", "_",
                                    "0", "0", "0", "0", "0", "1", "0", ".", "j", "s", "o", "n">>
        /\ cur[w].items[1].key \in DOMAIN store
        /\ store[cur[w].items[1].key].body =
              <<[data |-> [image |-> <<"s", "3", ":", "/", "/", "b", "k", "t", "/", "r", "a", "w", "/", "b", ".", "p", "n", "g">>]]>>

\* C16: the temporary directory of a record exists while the record is inside
\* the with-block, from the fetch on, and at no other time: it is gone as soon
\* as process_s3_record has returned or raised, however the record ended.
C16_TempReleased ==
    \A w \in Workers :
        tmp[w] <=> pc[w] \in {"download", "move_put", "move_delete", "open", "render",
                              "page_put", "png_put", "list", "task_put"}

\* A record whose fetch failed and a record that failed in its materialization
\* have both ended, and nothing is left allocated.
C16_Witness ==
    \E w \in Workers :
        /\ pc[w] = "loop"
        /\ ~tmp[w]
        /\ Len(outcome[w]) = 2
        /\ outcome[w][1].status = "failed"
        /\ Len(outcome[w][1].rec.ops) = 1
        /\ outcome[w][2].status = "failed"
        /\ Len(outcome[w][2].rec.ops) >= 4

\* C17: the pages of a PDF are taken in ascending order, and for each the
\* raster upload, the listing and the work-item write follow one another before
\* the next page is rendered: the calls after the fetch come in threes, the
\* p-th three being put raw/<base>_<p>.png, list ingest/, put of the p-th work
\* item.  Every work item, of any record, references the raster uploaded just
\* before it, and that raster is in the store.
C17_PagesInOrder ==
    \A w \in Running :
        LET c == cur[w]
        IN  /\ \A p \in 1..Len(c.items) :
                  /\ p <= Len(c.rasters)
                  /\ c.items[p].image = RefOf(c.bucket, c.rasters[p])
                  /\ c.rasters[p] \in DOMAIN store
            /\ Len(c.rasters) - Len(c.items) \in {0, 1}
            /\ c.ext = <<".", "p", "d", "f">> =>
                  /\ \A p \in 1..Len(c.rasters) : c.rasters[p] = PageKeyOf(c.base, p)
                  /\ \A j \in 2..Len(c.ops) :
                        LET p == ((j - 2) \div 3) + 1
                        IN  c.ops[j] = CASE (j - 2) % 3 = 0 -> [op |-> "put", key |-> PageKeyOf(c.base, p)]
                                         [] (j - 2) % 3 = 1 -> [op |-> "list", key |-> <<"i", "n", "g", "e", "s", "t", "/">>]
                                         [] OTHER -> IF p <= Len(c.items)
                                                     THEN [op |-> "put", key |-> c.items[p].key]
                                                     ELSE [op |-> "put", key |-> TaskKey(c.seq)]
                  /\ pc[w] \in {"render", "page_put"} =>
                        /\ Len(c.rasters) = c.page - 1
                        /\ Len(c.items) = c.page - 1
                        /\ Len(c.ops) = 1 + 3 * (c.page - 1)
                  /\ pc[w] \in {"list", "task_put"} =>
                        /\ Len(c.rasters) = c.page
                        /\ Len(c.items) = c.page - 1
                        /\ c.raw_key = PageKeyOf(c.base, c.page)
                        /\ c.raw_key \in DOMAIN store

\* Page 2 of upload/a b.PDF is about to be rendered: page 1 has its raster and
\* its work item in the store, and nothing of page 2 has been called yet.
C17_Witness ==
    \E w \in Workers :
        /\ pc[w] = "render"
        /\ cur[w].page = 2
        /\ Len(cur[w].ops) = 4
        /\ cur[w].rasters = << <<"r", "a", "w", "/", "a", " ", "b", "_", "0", "0", "0", "1", ".", "p", "n", "g">> >>
        /\ cur[w].rasters[1] \in DOMAIN store
        /\ Len(cur[w].items) = 1
        /\ Holds(cur[w].items[1])

\* C18: with one worker, every work item was written under a key the store did
\* not hold at that moment, the numbers of all the work items written in the
\* run differ from one another, and every one of them is still in the store as
\* it was written.
C18_NoOverwriteSingleWorker ==
    \A w \in Running :
        /\ \A it \in Written(w) : it.fresh /\ Holds(it)
        /\ \A it \in Written(w) : \A ot \in Written(w) :
              (it.seq = ot.seq \/ it.key = ot.key) => it = ot
        /\ Cardinality(Written(w)) =
              Len(cur[w].items) * (IF pc[w] = "loop" THEN 0 ELSE 1)
              + Cardinality(UNION {{<<i, j>> : j \in 1..Len(outcome[w][i].rec.items)} :
                                     i \in 1..Len(outcome[w])})

\* Two records of the same 2-page PDF went through after the earlier work
\* items 1..3: the run wrote the work items 4, 5, 6 and 7.
C18_Witness ==
    \E w \in Workers :
        /\ pc[w] = "loop"
        /\ {it.seq : it \in Written(w)} = {4, 5, 6, 7}
        /\ \A it \in Written(w) : it.fresh /\ Holds(it)

\* C19: the records that have ended are the first records of the batch, one
\* outcome each and in delivery order; the record a worker is inside is the one
\* after them; no record is fetched twice; and a run that is over has an
\* outcome for every record, whatever the outcomes before it.  (An outcome is
\* compared with its record when it has just been added: it never changes.)
C19_EachRecordOnceInOrder ==
    \A w \in Workers :
        /\ Len(outcome[w]) <= Len(batch[w])
        /\ Len(outcome[w]) = idx[w] - 1
        /\ \A i \in {j \in {Len(outcome[w])} : j >= 1 /\ pc[w] = "loop"} :
              LET o == outcome[w][i]
                  n == batch[w][i]
              IN  /\ o.status \in {"done", "skipped", "failed"}
                  /\ IF n.body = "json"
                     THEN o.rec.key = UnquotePlus(n.key)
                     ELSE o.status = "failed" /\ o.rec.ops = <<>>
                  /\ Cardinality({j \in 1..Len(o.rec.ops) : o.rec.ops[j].op = "get"}) <= 1
        /\ pc[w] \notin {"loop", "returned", "raised"} =>
              /\ idx[w] <= Len(batch[w])
              /\ batch[w][idx[w]].body = "json"
              /\ cur[w].key = UnquotePlus(batch[w][idx[w]].key)
        /\ pc[w] \in {"returned", "raised"} => Len(outcome[w]) = Len(batch[w])

\* The first record failed after its fetch and the worker is now inside the
\* second record, which is the same notification: it is fetched anew as record
\* 2, not as a retry of record 1.
C19_Witness ==
    \E w \in Workers :
        /\ pc[w] = "open"
        /\ idx[w] = 2
        /\ Len(outcome[w]) = 1
        /\ outcome[w][1].status = "failed"
        /\ Len(outcome[w][1].rec.ops) >= 2
        /\ batch[w][1] = batch[w][2]
        /\ cur[w].ops = <<[op |-> "get", key |-> UnquotePlus(batch[w][2].key)]>>

\* The keys of the store under raw/.
RawKeys == {k \in DOMAIN store : StartsWith(k, <<"r", "a", "w", "/">>)}

\* C20: when a run has processed the same N-page PDF once, or twice in a row,
\* and nothing else, raw/ holds the same N keys raw/<base>_<page>.png either
\* way, each processing has uploaded just these N, and each has written N work
\* items under keys that were new: after two, 2N work items of the run are in
\* the store, two for every raster (one worker).
C20_RastersOverwrittenItemsAdded ==
    \A w \in Running :
        LET k == Len(outcome[w])
        IN  (/\ pc[w] = "loop"
             /\ k >= 1
             /\ \A i \in 1..k : /\ outcome[w][i].status = "done"
                                /\ outcome[w][i].rec.ext = <<".", "p", "d", "f">>
                                /\ outcome[w][i].rec.key = outcome[w][1].rec.key) =>
               LET r1 == outcome[w][1].rec
                   N  == r1.doc.n
               IN  /\ RawKeys = {PageKeyOf(r1.base, p) : p \in 1..N}
                   /\ Cardinality(RawKeys) = N
                   /\ \A i \in 1..k :
                         /\ outcome[w][i].rec.rasters = [p \in 1..N |-> PageKeyOf(r1.base, p)]
                         /\ Len(outcome[w][i].rec.items) = N
                   /\ Cardinality({it.key : it \in Written(w)}) = k * N
                   /\ \A it \in Written(w) : it.fresh /\ Holds(it)
                   /\ \A p \in 1..N : Cardinality(ItemsFor(RefOf(r1.bucket, PageKeyOf(r1.base, p)))) = k

\* upload/a b.PDF, of 2 pages, went through twice: raw/ holds its 2 rasters
\* and the run has written 4 work items.
C20_Witness ==
    \E w \in Workers :
        /\ pc[w] = "loop"
        /\ Len(outcome[w]) = 2
        /\ \A i \in 1..2 : /\ outcome[w][i].status = "done"
                            /\ outcome[w][i].rec.key = <<"u", "p", "l", "o", "a", "d", "/", "a", " ", "b", ".", "P", "D", "F">>
                            /\ Len(outcome[w][i].rec.rasters) = 2
        /\ Cardinality(RawKeys) = 2
        /\ Cardinality({it.key : it \in Written(w)}) = 4

NotTaskKeys == {k \in DOMAIN store : StartsWith(k, <<"i", "n", "g", "e", "s", "t", "/">>)
                                     /\ ~IsTaskName(Basename(k))}

\* C22: the number get_next_task_sequence has just returned is the number it
\* returns with any one of the keys under ingest/ that are not named
\* TASK_<digits>.json taken away, and with all of them taken away.
C22_OtherKeysIgnored ==
    \A w \in Workers :
        pc[w] = "task_put" =>
            /\ \A k \in NotTaskKeys : GetNextTaskSequence(Delete(store, k), INGEST) = cur[w].seq
            /\ GetNextTaskSequence([k \in (DOMAIN store) \ NotTaskKeys |-> store[k]], INGEST) = cur[w].seq

\* C23: a PDF record whose document has no page ends as failed with the fetch
\* as its only call on the object store: no raster, no listing, no work item,
\* nothing put; and the worker stands at the next record of the batch.
C23_ZeroPagesFailsEarly ==
    \A w \in Running :
        LET c == cur[w]
        IN  (c.ext = <<".", "p", "d", "f">> /\ c.doc.kind = "pdf" /\ c.doc.n = 0) =>
               /\ pc[w] \in {"open", "loop"}
               /\ c.ops = <<[op |-> "get", key |-> c.key]>>
               /\ c.rasters = <<>>
               /\ c.items = <<>>
               /\ c.seq = 0
               /\ RawKeys \cap {PageKeyOf(c.base, p) : p \in 0..1} = {}
               /\ pc[w] = "loop" =>
                     /\ outcome[w][Len(outcome[w])].status = "failed"
                     /\ idx[w] = Len(outcome[w]) + 1

\* upload/a b.PDF has no page: its record failed after the fetch alone, and the
\* next record of the batch, upload/b.png, went through.
C23_Witness ==
    \E w \in Workers :
        /\ Len(outcome[w]) = 2
        /\ outcome[w][1].status = "failed"
        /\ outcome[w][1].rec.doc = [kind |-> "pdf", id |-> "a b", n |-> 0, body |-> <<>>]
        /\ Len(outcome[w][1].rec.ops) = 1
        /\ outcome[w][2].status = "done"
        /\ outcome[w][2].rec.ext = <<".", "p", "n", "g">>
        /\ Len(outcome[w][2].rec.items) = 1

\* C24: in the value lambda_handler returns, sync.status is "success" when the
\* POST was answered without transport or HTTP error by a JSON object whose
\* status is "completed", and "failed" in every other case: another status, no
\* status, an HTTP error status, no answer at all.
C24_SyncSuccessIffCompleted ==
    \A w \in Workers :
        pc[w] = "returned" =>
            LET a == answer[w]
                completed == /\ a.error = "none"
                             /\ a.body = "object"
                             /\ "status" \in DOMAIN a.json
                             /\ a.json["status"] = "completed"
            IN  /\ completed => result[w].sync.status = "success"
                /\ ~completed => result[w].sync.status = "failed"

\* The sync answered {"status": "completed"} after a batch whose record had
\* failed, and the value returned says sync.status "success".
C24_Witness ==
    \E w \in Workers :
        /\ pc[w] = "returned"
        /\ Len(outcome[w]) = 1
        /\ outcome[w][1].status = "failed"
        /\ answer[w] = [error |-> "none", body |-> "object", json |-> [status |-> "completed"]]
        /\ result[w].sync = [status |-> "success", response |-> [status |-> "completed"]]

====
